---- MODULE Spec2Model ----
(***************************************************************************)
(* The ACX batch processor (src/acx-fix-v1b.py and its sibling scripts):   *)
(* scan a directory, detect duplicate audio by MD5, decide the batch's     *)
(* channel count, then per file convert channels, normalise loudness,      *)
(* split into chunks and export each chunk as an MP3.                      *)
(*                                                                         *)
(* Two specifications:                                                     *)
(*   Spec     the batch run of acx-fix-v1b.py (__main__ and the functions  *)
(*            it calls);                                                   *)
(*   SegSpec  the pure function split_into_chunks applied to bounded       *)
(*            inputs.                                                      *)
(***************************************************************************)
EXTENDS Integers, Sequences, FiniteSets, TLC

VARIABLES
    pc,         \* position of __main__: "scan", "channels", "process", "done", "exit1", "crashed", "idle"
    k,          \* analyze_directory: index of the next directory entry
    meta,       \* analyze_directory's list of records, in scan order
    dup_groups, \* report_duplicates' result: list of lists of paths
    skip_md5,   \* __main__: set of digests process_file skips
    tgt_ch,     \* __main__: target channel count (0 = not yet computed)
    idx,        \* __main__: index in meta of the next record to process
    status,     \* per record of meta: "pending", "skipped", "processed"
    exported,   \* every chunk.export call so far, in order
    err,        \* the uncaught exception that ended the run ("" = none)
    seg         \* SegSpec: input and output of split_into_chunks

vars == <<pc, k, meta, dup_groups, skip_md5, tgt_ch, idx, status, exported, err, seg>>

(***************************************************************************)
(* Bounds of the model.                                                    *)
(***************************************************************************)
\* number of audio files the directory listing holds
MaxFiles == 3
\* SegSpec: largest small duration and largest small chunk size tried
MaxDur == 12
MaxSegLen == 4

(***************************************************************************)
(* CONFIG (acx-fix-v1b.py lines 11-17).                                    *)
(***************************************************************************)
TARGET_RMS_DBFS == -20
MAX_DURATION_MS == 120 * 60 * 1000
MARGIN_MS == 2 * 1000
CHUNK_SIZE_MS == MAX_DURATION_MS - MARGIN_MS
SUPPORTED_EXTS == {".mp3", ".wav"}

(***************************************************************************)
(* Python floats as far as the program uses them: a loudness or gain in dB *)
(* is finite, -inf (pydub's dBFS of a buffer whose rms is 0), +inf or nan. *)
(***************************************************************************)
Fin(n) == [kind |-> "fin", v |-> n]
NegInf == [kind |-> "-inf", v |-> 0]
PosInf == [kind |-> "+inf", v |-> 0]
NaN == [kind |-> "nan", v |-> 0]

\* a - b in IEEE arithmetic
FSub(a, b) ==
    IF a.kind = "nan" \/ b.kind = "nan" THEN NaN
    ELSE IF a.kind = "fin" /\ b.kind = "fin" THEN Fin(a.v - b.v)
    ELSE IF a.kind = "fin" THEN (IF b.kind = "-inf" THEN PosInf ELSE NegInf)
    ELSE IF b.kind = "fin" THEN a
    ELSE IF a.kind = b.kind THEN NaN ELSE a

\* a + b in IEEE arithmetic
FAdd(a, b) ==
    IF a.kind = "nan" \/ b.kind = "nan" THEN NaN
    ELSE IF a.kind = "fin" /\ b.kind = "fin" THEN Fin(a.v + b.v)
    ELSE IF a.kind = "fin" THEN b
    ELSE IF b.kind = "fin" THEN a
    ELSE IF a.kind = b.kind THEN a ELSE NaN

(***************************************************************************)
(* The input directory.  os.walk lists it in an arbitrary but fixed order; *)
(* the attributes of a file do not depend on its position, so the listing  *)
(* order is fixed here.  x.mp3 and x.wav share a base name, and x_part1    *)
(* is the name the first of several chunks of x gets.                      *)
(***************************************************************************)
FileName(n) ==
    IF n = 1 THEN [base |-> "x", ext |-> ".mp3"]
    ELSE IF n = 2 THEN [base |-> "x", ext |-> ".wav"]
    ELSE IF n = 3 THEN [base |-> "x_part1", ext |-> ".mp3"]
    ELSE [base |-> "y" \o ToString(n), ext |-> ".mp3"]

Listing == [n \in 1..MaxFiles |-> FileName(n)] \o <<[base |-> "notes", ext |-> ".txt"]>>

\* full path of a directory entry (relative to the input root)
PathOf(f) == f.base \o f.ext

(***************************************************************************)
(* What AudioSegment.from_file can return.  The raw PCM bytes are one of a *)
(* few contents; an empty buffer has length 0, and pydub reports -inf dBFS *)
(* for an empty or all-zero buffer.                                        *)
(***************************************************************************)
Contents == {"empty", "silence", "a", "b"}

dBFSOf(content) ==
    CASE content = "empty" -> NegInf
      [] content = "silence" -> NegInf
      [] content = "a" -> Fin(-30)
      [] content = "b" -> Fin(-15)

\* len(audio) in ms: one chunk exactly, one ms more (two chunks), three chunks
Durations(content) ==
    CASE content = "empty" -> {0}
      [] content = "silence" -> {CHUNK_SIZE_MS}
      [] OTHER -> {CHUNK_SIZE_MS, CHUNK_SIZE_MS + 1, 2 * CHUNK_SIZE_MS + 1}

Audios ==
    UNION {{[raw_data |-> c, len |-> d, channels |-> ch, dBFS |-> dBFSOf(c)] :
              d \in Durations(c), ch \in {1, 2}} : c \in Contents}

\* hashlib.md5 over the raw bytes: equal bytes give equal digests, and the
\* few contents of the model do not collide
compute_md5(audio) == "md5:" \o audio.raw_data


(***************************************************************************)
(* analyze_directory: one record per file that decodes.                    *)
(***************************************************************************)
Record(f, audio) ==
    [path |-> PathOf(f), base |-> f.base, duration |-> audio.len,
     channels |-> audio.channels, dBFS |-> audio.dBFS, md5 |-> compute_md5(audio)]

(***************************************************************************)
(* report_duplicates: group the paths by digest in first-seen order (a     *)
(* Python dict keeps insertion order) and keep the groups of two or more.  *)
(***************************************************************************)
RECURSIVE DigestOrder(_)
DigestOrder(m) ==
    IF m = <<>> THEN <<>>
    ELSE LET front == DigestOrder(SubSeq(m, 1, Len(m) - 1))
             h == m[Len(m)].md5
         IN IF \E i \in 1..Len(front) : front[i] = h THEN front ELSE Append(front, h)

RECURSIVE PathsWith(_, _)
PathsWith(m, h) ==
    IF m = <<>> THEN <<>>
    ELSE LET front == PathsWith(SubSeq(m, 1, Len(m) - 1), h)
         IN IF m[Len(m)].md5 = h THEN Append(front, m[Len(m)].path) ELSE front

\* a filter that lets the groups of one through
GroupNotEmpty(g) == Len(g) > 0

GroupLongEnough(g) == Len(g) > 1

report_duplicates(m) ==
    LET order == DigestOrder(m)
        dups == [i \in 1..Len(order) |-> PathsWith(m, order[i])]
    IN SelectSeq(dups, GroupLongEnough)

\* next(m["md5"] for m in meta if m["path"] == dup_path)
Md5OfPath(m, p) ==
    LET i == CHOOSE i \in 1..Len(m) : m[i].path = p /\ \A j \in 1..(i - 1) : m[j].path # p
    IN m[i].md5

\* __main__: for grp in dup_groups: for dup_path in grp[1:]: skip_md5.add(h)
SkipSet(groups, m) ==
    UNION {{Md5OfPath(m, groups[g][j]) : j \in 2..Len(groups[g])} : g \in 1..Len(groups)}

(***************************************************************************)
(* decide_target_channels.                                                 *)
(***************************************************************************)
decide_target_channels(m) ==
    IF \E i \in 1..Len(m) : m[i].channels > 1 THEN 2 ELSE 1

(***************************************************************************)
(* split_into_chunks, with the chunk size as a parameter: CHUNK_SIZE_MS in *)
(* acx-fix-v1b.py, MAX_DURATION_MS in acx-fix-v1.py.  math.ceil of the     *)
(* float quotient is the integer ceiling for durations this small          *)
(* (far below 2^53).                                                       *)
(***************************************************************************)
\* a count that rounds down and adds one: one chunk too many on exact multiples
ChunkCountFloorPlusOne(total_ms, max_ms) == (total_ms \div max_ms) + 1

ChunkCount(total_ms, max_ms) == (total_ms + max_ms - 1) \div max_ms

ChunkStart(i, max_ms) == i * max_ms

Min(a, b) == IF a < b THEN a ELSE b

\* an end that is not clipped to the length of the audio
ChunkEndNoClip(i, total_ms, max_ms) == (i + 1) * max_ms

ChunkEnd(i, total_ms, max_ms) == Min((i + 1) * max_ms, total_ms)

split_into_chunks(total_ms, max_ms) ==
    [n \in 1..ChunkCount(total_ms, max_ms) |->
        [start |-> ChunkStart(n - 1, max_ms), end |-> ChunkEnd(n - 1, total_ms, max_ms)]]

(***************************************************************************)
(* The splitting block of acx.py's process_file (batch_acx_fix.py has the  *)
(* same): the whole audio when it is not longer than the maximum, else the *)
(* slices audio[i : i + max] for i in range(0, len(audio), max); a pydub   *)
(* slice ends at the end of the audio at the latest.                       *)
(***************************************************************************)
\* list(range(start, stop, step)) for a positive step
RECURSIVE PyRange(_, _, _)
PyRange(start, stop, step) ==
    IF start < stop THEN <<start>> \o PyRange(start + step, stop, step) ELSE <<>>

\* audio[i : j] of an audio of total_ms: both ends are clipped to its length
Slice(total_ms, i, j) == [start |-> Min(i, total_ms), end |-> Min(j, total_ms)]

\* the block without its "if len(audio) > MAX_DURATION_MS" test
stepping_always(total_ms, max_ms) ==
    LET starts == PyRange(0, total_ms, max_ms)
    IN [n \in 1..Len(starts) |-> Slice(total_ms, starts[n], starts[n] + max_ms)]

stepping_segments(total_ms, max_ms) ==
    IF total_ms > max_ms
    THEN LET starts == PyRange(0, total_ms, max_ms)
         IN [n \in 1..Len(starts) |-> Slice(total_ms, starts[n], starts[n] + max_ms)]
    ELSE <<[start |-> 0, end |-> total_ms]>>

(***************************************************************************)
(* process_file, step by step.                                             *)
(***************************************************************************)
\* AudioSegment.from_file(src) on a file the scan decoded: the same audio
FromFile(info) == [len |-> info.duration, channels |-> info.channels, dBFS |-> info.dBFS]

\* audio.set_channels(n); mono to stereo copies the channel, the rms is kept
set_channels(audio, n) == [audio EXCEPT !.channels = n]

\* a conversion that leaves the audio as it was decoded
ConvertNothing(audio, target_ch) == audio

ConvertChannels(audio, target_ch) ==
    IF audio.channels # target_ch THEN set_channels(audio, target_ch) ELSE audio

\* gain = TARGET_RMS_DBFS - audio.dBFS
GainFor(audio) == FSub(Fin(TARGET_RMS_DBFS), audio.dBFS)

apply_gain(audio, gain) == [audio EXCEPT !.dBFS = FAdd(audio.dBFS, gain)]

\* a suffix that every chunk gets, also the only one
SuffixAlways(i, count) == "_part" \o ToString(i)

\* suffix = f"_part{idx}" if len(chunks) > 1 else ""
Suffix(i, count) == IF count > 1 THEN "_part" \o ToString(i) ELSE ""

\* os.path.join(out_root, base + suffix + ".mp3"), relative to out_root
OutPath(base, i, count) == base \o Suffix(i, count) \o ".mp3"

\* one chunk.export call: the path, and what is written there
ExportCall(info, n, chunks, audio, measured_on, gain) ==
    [out_path |-> OutPath(info.base, n, Len(chunks)), src |-> info.path,
     part |-> n, count |-> Len(chunks),
     start |-> chunks[n].start, end |-> chunks[n].end,
     channels |-> audio.channels,
     measured |-> measured_on.dBFS, measured_ch |-> measured_on.channels,
     gain |-> gain]

\* a process_file that computes the gain on the audio as decoded, and converts after
ExportsGainFirst(info, target_ch) ==
    LET raw == FromFile(info)
        gain == GainFor(raw)
        audio == ConvertChannels(apply_gain(raw, gain), target_ch)
        chunks == split_into_chunks(audio.len, CHUNK_SIZE_MS)
    IN [n \in 1..Len(chunks) |-> ExportCall(info, n, chunks, audio, raw, gain)]

\* the export calls of one file: one per chunk, in order
Exports(info, target_ch) ==
    LET conv == ConvertChannels(FromFile(info), target_ch)
        gain == GainFor(conv)
        audio == apply_gain(conv, gain)
        chunks == split_into_chunks(audio.len, CHUNK_SIZE_MS)
    IN [n \in 1..Len(chunks) |-> ExportCall(info, n, chunks, audio, conv, gain)]

(***************************************************************************)
(* The batch run: __main__ of acx-fix-v1b.py.                              *)
(***************************************************************************)
NoErr == [stage |-> "", path |-> ""]

SegIdle ==
    [total_ms |-> 0, max_ms |-> 1, ran_chunks |-> FALSE, chunks |-> <<>>,
     ran_steps |-> FALSE, segments |-> <<>>]

Init ==
    /\ pc = "scan"
    /\ k = 1
    /\ meta = <<>>
    /\ dup_groups = <<>>
    /\ skip_md5 = {}
    /\ tgt_ch = 0
    /\ idx = 0
    /\ status = <<>>
    /\ exported = <<>>
    /\ err = NoErr
    /\ seg = SegIdle

\* analyze_directory: a file whose extension is not supported is passed over
ScanUnsupported ==
    /\ pc = "scan"
    /\ k <= Len(Listing)
    /\ Listing[k].ext \notin SUPPORTED_EXTS
    /\ k' = k + 1
    /\ UNCHANGED <<pc, meta, dup_groups, skip_md5, tgt_ch, idx, status, exported, err, seg>>

\* analyze_directory: AudioSegment.from_file raises, the file is reported and dropped
ScanDecodeError ==
    /\ pc = "scan"
    /\ k <= Len(Listing)
    /\ Listing[k].ext \in SUPPORTED_EXTS
    /\ k' = k + 1
    /\ UNCHANGED <<pc, meta, dup_groups, skip_md5, tgt_ch, idx, status, exported, err, seg>>

\* analyze_directory: the file decodes and its record is appended
ScanFile ==
    /\ pc = "scan"
    /\ k <= Len(Listing)
    /\ Listing[k].ext \in SUPPORTED_EXTS
    /\ \E audio \in Audios :
         /\ meta' = Append(meta, Record(Listing[k], audio))
         /\ status' = Append(status, "pending")
    /\ k' = k + 1
    /\ UNCHANGED <<pc, dup_groups, skip_md5, tgt_ch, idx, exported, err, seg>>

\* __main__: if not meta: sys.exit(1)
ExitNoFiles ==
    /\ pc = "scan"
    /\ k > Len(Listing)
    /\ meta = <<>>
    /\ pc' = "exit1"
    /\ UNCHANGED <<k, meta, dup_groups, skip_md5, tgt_ch, idx, status, exported, err, seg>>

\* __main__ step 2: report_duplicates and the construction of skip_md5
DetectDuplicates ==
    /\ pc = "scan"
    /\ k > Len(Listing)
    /\ meta # <<>>
    /\ dup_groups' = report_duplicates(meta)
    /\ skip_md5' = SkipSet(report_duplicates(meta), meta)
    /\ pc' = "channels"
    /\ UNCHANGED <<k, meta, tgt_ch, idx, status, exported, err, seg>>

\* __main__ step 3: tgt_ch = decide_target_channels(meta)
DecideChannels ==
    /\ pc = "channels"
    /\ tgt_ch' = decide_target_channels(meta)
    /\ idx' = 1
    /\ pc' = "process"
    /\ UNCHANGED <<k, meta, dup_groups, skip_md5, status, exported, err, seg>>

Processing == pc = "process" /\ idx <= Len(meta)

\* a skip that takes the digest out of skip_md5 once it has skipped a record
ProcessSkipForgets ==
    /\ Processing
    /\ meta[idx].md5 \in skip_md5
    /\ skip_md5' = skip_md5 \ {meta[idx].md5}
    /\ status' = [status EXCEPT ![idx] = "skipped"]
    /\ idx' = idx + 1
    /\ UNCHANGED <<pc, k, meta, dup_groups, tgt_ch, exported, err, seg>>

\* process_file: the record's digest is in skip_md5, return at once
ProcessSkip ==
    /\ Processing
    /\ meta[idx].md5 \in skip_md5
    /\ status' = [status EXCEPT ![idx] = "skipped"]
    /\ idx' = idx + 1
    /\ UNCHANGED <<pc, k, meta, dup_groups, skip_md5, tgt_ch, exported, err, seg>>

\* an exception leaves process_file and, uncaught, ends __main__
Crash(stage) ==
    /\ status' = [status EXCEPT ![idx] = "failed"]
    /\ err' = [stage |-> stage, path |-> meta[idx].path]
    /\ pc' = "crashed"

\* process_file: AudioSegment.from_file(src) raises
ProcessDecodeError ==
    /\ Processing
    /\ meta[idx].md5 \notin skip_md5
    /\ Crash("decode")
    /\ UNCHANGED <<k, meta, dup_groups, skip_md5, tgt_ch, idx, exported, seg>>

\* process_file: audio.set_channels(target_ch) raises
ProcessChannelError ==
    /\ Processing
    /\ meta[idx].md5 \notin skip_md5
    /\ FromFile(meta[idx]).channels # tgt_ch
    /\ Crash("channels")
    /\ UNCHANGED <<k, meta, dup_groups, skip_md5, tgt_ch, idx, exported, seg>>

\* process_file: chunk.export raises on chunk n + 1, after n chunks were written
ProcessEncodeError ==
    /\ Processing
    /\ meta[idx].md5 \notin skip_md5
    /\ LET out == Exports(meta[idx], tgt_ch)
       IN \E n \in 0..(Len(out) - 1) :
            exported' = exported \o SubSeq(out, 1, n)
    /\ Crash("export")
    /\ UNCHANGED <<k, meta, dup_groups, skip_md5, tgt_ch, idx, seg>>

\* process_file runs to its end: every chunk is exported
ProcessFile ==
    /\ Processing
    /\ meta[idx].md5 \notin skip_md5
    /\ exported' = exported \o Exports(meta[idx], tgt_ch)
    /\ status' = [status EXCEPT ![idx] = "processed"]
    /\ idx' = idx + 1
    /\ UNCHANGED <<pc, k, meta, dup_groups, skip_md5, tgt_ch, err, seg>>

\* __main__: the loop over meta is over, "All done!"
Finish ==
    /\ pc = "process"
    /\ idx > Len(meta)
    /\ pc' = "done"
    /\ UNCHANGED <<k, meta, dup_groups, skip_md5, tgt_ch, idx, status, exported, err, seg>>

Next ==
    \/ ScanUnsupported
    \/ ScanDecodeError
    \/ ScanFile
    \/ ExitNoFiles
    \/ DetectDuplicates
    \/ DecideChannels
    \/ ProcessSkip
    \/ ProcessDecodeError
    \/ ProcessChannelError
    \/ ProcessEncodeError
    \/ ProcessFile
    \/ Finish

Spec == Init /\ [][Next]_vars

(***************************************************************************)
(* split_into_chunks on its own, for every duration and chunk size of a    *)
(* bounded set: small ones, and the program's own around its chunk sizes.  *)
(***************************************************************************)
SegInputs ==
    ((0..MaxDur) \X (1..MaxSegLen))
    \cup ({0, 1, CHUNK_SIZE_MS - 1, CHUNK_SIZE_MS, CHUNK_SIZE_MS + 1, MAX_DURATION_MS,
           MAX_DURATION_MS + 1, 2 * CHUNK_SIZE_MS, 2 * MAX_DURATION_MS + 1, 150 * 60 * 1000}
          \X {CHUNK_SIZE_MS, MAX_DURATION_MS})

SegInit ==
    /\ pc = "idle"
    /\ k = 1
    /\ meta = <<>>
    /\ dup_groups = <<>>
    /\ skip_md5 = {}
    /\ tgt_ch = 0
    /\ idx = 0
    /\ status = <<>>
    /\ exported = <<>>
    /\ err = NoErr
    /\ \E in \in SegInputs :
         seg = [SegIdle EXCEPT !.total_ms = in[1], !.max_ms = in[2]]

\* chunks = list(split_into_chunks(audio))
SplitChunks ==
    /\ pc = "idle"
    /\ ~seg.ran_chunks
    /\ seg' = [seg EXCEPT !.ran_chunks = TRUE,
                          !.chunks = split_into_chunks(seg.total_ms, seg.max_ms)]
    /\ UNCHANGED <<pc, k, meta, dup_groups, skip_md5, tgt_ch, idx, status, exported, err>>

\* acx.py's "splitting if needed" block
SplitStepping ==
    /\ pc = "idle"
    /\ ~seg.ran_steps
    /\ seg' = [seg EXCEPT !.ran_steps = TRUE,
                          !.segments = stepping_segments(seg.total_ms, seg.max_ms)]
    /\ UNCHANGED <<pc, k, meta, dup_groups, skip_md5, tgt_ch, idx, status, exported, err>>

SegNext == SplitChunks \/ SplitStepping

SegSpec == SegInit /\ [][SegNext]_vars

(***************************************************************************)
(* Properties.                                                             *)
(***************************************************************************)
\* the records process_file does not skip
Kept == {i \in 1..Len(meta) : meta[i].md5 \notin skip_md5}

\* __main__ is past the construction of skip_md5 / past decide_target_channels
AfterDuplicates == pc \in {"channels", "process", "done", "crashed"}
AfterDecide == pc \in {"process", "done", "crashed"}

\* record i shares its digest with another record
InGroup(i) == \E j \in 1..Len(meta) : j # i /\ meta[j].md5 = meta[i].md5

\* record i is the first in scan order with its digest
FirstOfDigest(i) == \A j \in 1..(i - 1) : meta[j].md5 # meta[i].md5

\* the export calls made for record i, in order
RECURSIVE ExportsFrom(_, _)
ExportsFrom(log, p) ==
    IF log = <<>> THEN <<>>
    ELSE LET front == ExportsFrom(SubSeq(log, 1, Len(log) - 1), p)
         IN IF log[Len(log)].src = p THEN Append(front, log[Len(log)]) ELSE front

ExportsOf(i) == ExportsFrom(exported, meta[i].path)

\* C1: when the run has finished, of every group of two or more records with
\* one content digest exactly the first in scan order was processed and every
\* other member was skipped.
C1_FirstOfGroupProcessed ==
    pc = "done" =>
        \A i \in 1..Len(meta) :
            InGroup(i) => status[i] = (IF FirstOfDigest(i) THEN "processed" ELSE "skipped")

\* C2: the chunks of split_into_chunks start at 0, each starts where the
\* previous one ends, none is longer than the maximum or of negative length,
\* the last ends at the duration, and there is a chunk whenever there is
\* anything to cover.
C2_ChunksTile ==
    seg.ran_chunks =>
        LET c == seg.chunks
        IN /\ (c = <<>>) => seg.total_ms = 0
           /\ (c # <<>>) => c[1].start = 0 /\ c[Len(c)].end = seg.total_ms
           /\ \A n \in 1..Len(c) :
                /\ c[n].start <= c[n].end
                /\ c[n].end - c[n].start <= seg.max_ms
                /\ n > 1 => c[n].start = c[n - 1].end

C2_Witness ==
    /\ seg.ran_chunks
    /\ Len(seg.chunks) >= 3
    /\ seg.chunks[Len(seg.chunks)].end - seg.chunks[Len(seg.chunks)].start < seg.max_ms

\* C3 as stated: for every duration from 0 to the maximum, split_into_chunks
\* returns exactly one segment, which ends at the duration.
C3_OneSegmentFromZero ==
    (seg.ran_chunks /\ seg.total_ms <= seg.max_ms) =>
        Len(seg.chunks) = 1 /\ seg.chunks[1].end = seg.total_ms

\* C3 amended: for every duration above 0 and up to the maximum, both
\* segmenters return exactly one segment, which ends at the duration; at
\* duration 0 split_into_chunks returns no segment and the stepping block of
\* acx.py one empty segment.
C3_OneSegmentAboveZero ==
    /\ (seg.ran_chunks /\ 0 < seg.total_ms /\ seg.total_ms <= seg.max_ms) =>
          Len(seg.chunks) = 1 /\ seg.chunks[1].end = seg.total_ms
    /\ (seg.ran_chunks /\ seg.total_ms = 0) => seg.chunks = <<>>
    /\ (seg.ran_steps /\ seg.total_ms <= seg.max_ms) =>
          seg.segments = <<[start |-> 0, end |-> seg.total_ms]>>

C3_Witness ==
    /\ seg.ran_chunks /\ seg.ran_steps
    /\ seg.total_ms = CHUNK_SIZE_MS /\ seg.max_ms = CHUNK_SIZE_MS
    /\ Len(seg.chunks) = 1

\* C4: once computed, the target channel count is 2 exactly when a record
\* that process_file does not skip has more than one channel.
C4_TargetFromKeptOnly ==
    AfterDecide => (tgt_ch = 2 <=> \E i \in Kept : meta[i].channels > 1)

\* C5: when the run has ended, every record that is not skipped and did not
\* itself fail has been processed.
C5_OthersStillProcessed ==
    pc \in {"done", "crashed"} =>
        \A i \in Kept : status[i] \in {"processed", "failed"}

\* C6: no two export calls of a run write the same output path.
C6_NoTwoExportsOnePath ==
    \A a, b \in 1..Len(exported) :
        a # b => exported[a].out_path # exported[b].out_path

\* C7: a processed file with n chunks has exactly n export calls, to n
\* different paths; the only chunk goes to base.mp3, and of several chunks
\* the j-th goes to base_part<j>.mp3, in chunk order.
C7_ExportNames ==
    \A i \in 1..Len(meta) :
        status[i] = "processed" =>
            LET e == ExportsOf(i)
                n == Len(split_into_chunks(meta[i].duration, CHUNK_SIZE_MS))
            IN /\ Len(e) = n
               /\ n = 1 => e[1].out_path = meta[i].base \o ".mp3"
               /\ n > 1 => \A j \in 1..n :
                              e[j].out_path = meta[i].base \o "_part" \o ToString(j) \o ".mp3"
               /\ \A j \in 1..Len(e) :
                    /\ e[j].part = j
                    /\ e[j].start = (j - 1) * CHUNK_SIZE_MS
               /\ \A a, b \in 1..Len(e) : a # b => e[a].out_path # e[b].out_path

C7_Witness ==
    /\ pc = "done"
    /\ \E i \in 1..Len(meta) : status[i] = "processed" /\ Len(ExportsOf(i)) = 3
    /\ \E i \in 1..Len(meta) : status[i] = "processed" /\ Len(ExportsOf(i)) = 1

\* C8: once the skip set is built from a non-empty scan list, some record
\* is not skipped.
C8_SomeRecordKept ==
    (AfterDuplicates /\ meta # <<>>) => Kept # {}

\* C9: every exported chunk of a file whose measured loudness is -inf was
\* given a gain of 0 dB.
C9_SilenceGetsZeroGain ==
    \A n \in 1..Len(exported) :
        exported[n].measured = NegInf => exported[n].gain = Fin(0)

\* C10: with no record kept, no target channel count is ever returned and
\* the run does not end in success.
C10_NoTargetWithoutSurvivor ==
    Kept = {} => tgt_ch = 0 /\ pc # "done"

\* C11: the target channel count is set once, from "not computed", by the
\* step that follows the construction of skip_md5 and before any record is
\* processed or exported; it never changes afterwards, and every exported
\* chunk has exactly that many channels.
C11_TargetFixedAndApplied ==
    [][/\ (tgt_ch' # tgt_ch) =>
            /\ tgt_ch = 0
            /\ pc = "channels" /\ pc' = "process"
            /\ exported = <<>>
            /\ \A i \in 1..Len(meta) : status[i] = "pending"
       /\ \A n \in 1..Len(exported') :
            exported'[n].channels = tgt_ch' /\ tgt_ch' \in {1, 2}]_vars

\* a mono record was exported in stereo
C11_Witness ==
    /\ pc = "done"
    /\ tgt_ch = 2
    /\ \E i \in 1..Len(meta) :
         /\ meta[i].channels = 1
         /\ status[i] = "processed"
         /\ ExportsOf(i) # <<>>

\* the record an export call was made for
RecordOf(e) == meta[CHOOSE i \in 1..Len(meta) : meta[i].path = e.src]

\* C12: every exported chunk comes from a buffer that was converted to the
\* target channel count before its loudness was measured, and the gain
\* applied is the target loudness minus the loudness of that converted
\* buffer.
C12_GainOnConvertedBuffer ==
    \A n \in 1..Len(exported) :
        LET e == exported[n]
        IN /\ e.measured_ch = tgt_ch
           /\ e.channels = tgt_ch
           /\ e.measured = set_channels(FromFile(RecordOf(e)), tgt_ch).dBFS
           /\ e.gain = FSub(Fin(TARGET_RMS_DBFS), e.measured)

\* a mono record of -30 dBFS was exported in stereo with a gain of +10 dB
C12_Witness ==
    \E n \in 1..Len(exported) :
        /\ RecordOf(exported[n]).channels = 1
        /\ exported[n].measured_ch = 2
        /\ exported[n].gain = Fin(10)

\* C13: when the run has ended and an export has failed, every record
\* after the failed one that is not skipped has been processed.
C13_EncodeErrorContinues ==
    (pc \in {"done", "crashed"} /\ err.stage = "export") =>
        \A i \in Kept : i > idx => status[i] = "processed"

SegLengths(s) == {s[n].end - s[n].start : n \in 1..Len(s)}

\* C14: with the chunk size a script has by default, no segment is as long
\* as the raw 120-minute ceiling: split_into_chunks with CHUNK_SIZE_MS
\* (acx-fix-v1b.py) and with MAX_DURATION_MS (acx-fix-v1.py), and the
\* stepping block of acx.py with MAX_DURATION_MS.
C14_SegmentsUnderCeiling ==
    /\ (seg.ran_chunks /\ seg.max_ms \in {CHUNK_SIZE_MS, MAX_DURATION_MS}) =>
          \A d \in SegLengths(seg.chunks) : d < MAX_DURATION_MS
    /\ (seg.ran_steps /\ seg.max_ms = MAX_DURATION_MS) =>
          \A d \in SegLengths(seg.segments) : d < MAX_DURATION_MS

\* C15: once built, skip_md5 is never changed, and a record whose digest
\* is in it is only ever pending or skipped and has no export call.
C15_SkipSetFrozen ==
    [][/\ AfterDuplicates => skip_md5' = skip_md5
       /\ \A i \in 1..Len(meta') :
            meta'[i].md5 \in skip_md5' =>
                /\ status'[i] \in {"pending", "skipped"}
                /\ \A n \in 1..Len(exported') : exported'[n].src # meta'[i].path]_vars

\* one record was skipped and another was exported
C15_Witness ==
    /\ pc = "done"
    /\ \E i \in 1..Len(meta) : status[i] = "skipped" /\ ExportsOf(i) = <<>>
    /\ \E i \in 1..Len(meta) : status[i] = "processed" /\ ExportsOf(i) # <<>>

PathIndex(p) == CHOOSE i \in 1..Len(meta) : meta[i].path = p

\* C16: every reported group has two or more members, in scan order and of
\* one digest; every digest of skip_md5 belongs to two or more records,
\* and a record whose digest is unique is never skipped.
C16_UniqueNeverSkipped ==
    AfterDuplicates =>
        /\ \A g \in 1..Len(dup_groups) :
             /\ Len(dup_groups[g]) >= 2
             /\ \A a, b \in 1..Len(dup_groups[g]) :
                  /\ a < b => PathIndex(dup_groups[g][a]) < PathIndex(dup_groups[g][b])
                  /\ meta[PathIndex(dup_groups[g][a])].md5 = meta[PathIndex(dup_groups[g][b])].md5
        /\ \A h \in skip_md5 : Cardinality({i \in 1..Len(meta) : meta[i].md5 = h}) >= 2
        /\ \A i \in 1..Len(meta) : ~InGroup(i) => status[i] # "skipped"

\* a group of two was skipped next to a record of a unique digest that was processed
C16_Witness ==
    /\ pc = "done"
    /\ Len(dup_groups) = 1
    /\ \E i \in 1..Len(meta) : ~InGroup(i) /\ status[i] = "processed"
    /\ \E i \in 1..Len(meta) : InGroup(i) /\ status[i] = "skipped"

\* C17: for one maximum and one duration above 0 the stepping block of
\* acx.py and split_into_chunks give the same segments; at duration 0 the
\* stepping block gives one empty segment and split_into_chunks none.
C17_SteppingEqualsChunks ==
    (seg.ran_chunks /\ seg.ran_steps) =>
        IF seg.total_ms > 0
        THEN seg.segments = seg.chunks
        ELSE seg.chunks = <<>> /\ seg.segments = <<[start |-> 0, end |-> 0]>>

\* both ran on a duration of more than two maxima that is no multiple of it
C17_Witness ==
    /\ seg.ran_chunks /\ seg.ran_steps
    /\ seg.total_ms > 2 * seg.max_ms
    /\ seg.total_ms % seg.max_ms # 0
    /\ Len(seg.segments) = 3

====
